---- MODULE Spec2Model ----
(***************************************************************************)
(* Image Resizer plugin: the event-driven scheduling / guard layer of      *)
(* src/src/main.ts together with the resize engine of src/src/resizer.ts.  *)
(*                                                                         *)
(* Time is counted in units of 500 ms, the greatest unit that divides the  *)
(* delays of the three kinds of setTimeout of main.ts (500, 1000, 2000     *)
(* ms).  An await (storage, decode, encode, sleep) takes any amount of     *)
(* time.  A file name is the sequence of its characters; a run of          *)
(* characters that holds no dot may be written as one token.  All files of *)
(* the model live in the vault root, so a file's path equals its name.  A  *)
(* TFile is read as the code reads it: its path and name are the ones it   *)
(* had when the handler received it.                                       *)
(***************************************************************************)
EXTENDS Integers, Sequences, FiniteSets, Bags, TLC

\* ------------------------------------------------------------------ bounds
\* External stimuli of one behaviour: host file writes, commands, settings edits.
MaxCommands == 2
\* Where the history counter of the events of one burst saturates.
MaxBurst == 2
\* The sides of the small images the resize engine is run on are 0..MaxSide.
MaxSide == 6
\* The small limits the resize engine is run with are 0..MaxLimit.
MaxLimit == 4

\* --------------------------------------------------------- program constants
\* In units of 500 ms.
DebounceDelay == 1
GraceDelay == 2
PasteGraceDelay == 4
DefaultMaxWidth == 1920
DefaultMaxHeight == 1080
DefaultJpegQuality == 85

\* ------------------------------------------------------------------ strings
Dot == "."

\* String.prototype.toLowerCase, on the characters the model uses.
ToLowerChar(c) ==
  CASE c = "P" -> "p"
    [] c = "N" -> "n"
    [] c = "G" -> "g"
    [] c = "J" -> "j"
    [] OTHER -> c

ToLowerCase(s) == [i \in 1..Len(s) |-> ToLowerChar(s[i])]

\* Index of the last "." of s, 0 when there is none.
LastDot(s) ==
  LET dots == {i \in 1..Len(s) : s[i] = Dot}
  IN  IF dots = {} THEN 0 ELSE CHOOSE i \in dots : \A j \in dots : j <= i

\* filename.split(".").pop(): what follows the last dot, the whole name without one.
SplitPop(s) == SubSeq(s, LastDot(s) + 1, Len(s))

getExtension(filename) == ToLowerCase(SplitPop(filename))

IMAGE_EXTENSIONS ==
  { <<"p", "n", "g">>, <<"j", "p", "g">>, <<"j", "p", "e", "g">>,
    <<"w", "e", "b", "p">>, <<"b", "m", "p">> }

isImageFile(filename) == getExtension(filename) \in IMAGE_EXTENSIONS

getMimeType(ext) ==
  CASE ext = <<"p", "n", "g">> -> "image/png"
    [] ext = <<"j", "p", "g">> -> "image/jpeg"
    [] ext = <<"j", "p", "e", "g">> -> "image/jpeg"
    [] ext = <<"w", "e", "b", "p">> -> "image/webp"
    [] ext = <<"b", "m", "p">> -> "image/bmp"
    [] OTHER -> "image/png"

\* s.replace(/\.[^.]+$/, "." + ext): the last dot and what follows it, when at
\* least one character follows it; s itself otherwise.
ReplaceExtension(s, ext) ==
  IF LastDot(s) > 0 /\ LastDot(s) < Len(s)
  THEN SubSeq(s, 1, LastDot(s)) \o ext
  ELSE s

\* s.replace(pat, rep) with a string pattern: the first occurrence only.
ReplaceFirst(s, pat, rep) ==
  LET hits == {i \in 1..(Len(s) - Len(pat) + 1) : SubSeq(s, i, i + Len(pat) - 1) = pat}
  IN  IF hits = {} THEN s
      ELSE LET i == CHOOSE k \in hits : \A j \in hits : k <= j
           IN  SubSeq(s, 1, i - 1) \o rep \o SubSeq(s, i + Len(pat), Len(s))

Jpg == <<"j", "p", "g">>

\* ------------------------------------------------------------------- files
Stem == "Pasted image 20261105181400"
PngPath == <<Stem, ".", "p", "n", "g">>
JpgPath == <<Stem, ".", "j", "p", "g">>
NotePath == <<"n", ".", "m", "d">>
Paths == {PngPath, JpgPath, NotePath}

TFile(p) == [path |-> p, name |-> p]

\* What the vault holds at a path.
NoFile == [kind |-> "none", w |-> 0, h |-> 0]
Corrupt == [kind |-> "corrupt", w |-> 0, h |-> 0]
Img(w, h) == [kind |-> "image", w |-> w, h |-> h]

\* Contents the host or the user may put at a path.
HostContents == {Img(3840, 2160), Img(800, 600), Corrupt}

\* ----------------------------------------------------------- resize engine
\* Math.round on a non-negative rational n / d.  The scale is kept as an exact
\* fraction; on the image sizes and limits used here the double-precision
\* product rounds to the same integer.
MathRound(n, d) == (2 * n + d) \div (2 * d)

\* The scale of calculateDimensions as a fraction <<num, den>>.
\* Faulty variant: Math.max in place of Math.min.
ScaleW_Max(origWidth, maxWidth, s) ==
  IF maxWidth > 0 /\ origWidth > maxWidth /\ maxWidth * s[2] > s[1] * origWidth
  THEN <<maxWidth, origWidth>> ELSE s

ScaleW(origWidth, maxWidth, s) ==
  IF maxWidth > 0 /\ origWidth > maxWidth /\ maxWidth * s[2] < s[1] * origWidth
  THEN <<maxWidth, origWidth>> ELSE s

\* Faulty variant: the height limit is ignored.
ScaleH_Ignored(origHeight, maxHeight, s) == s

ScaleH(origHeight, maxHeight, s) ==
  IF maxHeight > 0 /\ origHeight > maxHeight /\ maxHeight * s[2] < s[1] * origHeight
  THEN <<maxHeight, origHeight>> ELSE s

NoDims == [width |-> -1, height |-> -1]

\* Faulty variant: the test for "no resize needed" is scale <= 1, so nothing is resized.
calculateDimensions_Flipped(origWidth, origHeight, maxWidth, maxHeight) ==
  LET scale == ScaleH(origHeight, maxHeight, ScaleW(origWidth, maxWidth, <<1, 1>>))
  IN  IF scale[1] <= scale[2]
      THEN NoDims
      ELSE [width |-> MathRound(origWidth * scale[1], scale[2]),
            height |-> MathRound(origHeight * scale[1], scale[2])]

\* Faulty variant: the test for "no resize needed" is scale > 1, so a file within the
\* limits is written again at its own size.
calculateDimensions_Strict(origWidth, origHeight, maxWidth, maxHeight) ==
  LET scale == ScaleH(origHeight, maxHeight, ScaleW(origWidth, maxWidth, <<1, 1>>))
  IN  IF scale[1] > scale[2]
      THEN NoDims
      ELSE [width |-> MathRound(origWidth * scale[1], scale[2]),
            height |-> MathRound(origHeight * scale[1], scale[2])]

\* Faulty variant: only the width is scaled.
calculateDimensions_Stretch(origWidth, origHeight, maxWidth, maxHeight) ==
  LET scale == ScaleH(origHeight, maxHeight, ScaleW(origWidth, maxWidth, <<1, 1>>))
  IN  IF scale[1] >= scale[2]
      THEN NoDims
      ELSE [width |-> MathRound(origWidth * scale[1], scale[2]),
            height |-> origHeight]

calculateDimensions(origWidth, origHeight, maxWidth, maxHeight) ==
  LET scale == ScaleH(origHeight, maxHeight, ScaleW(origWidth, maxWidth, <<1, 1>>))
  IN  IF scale[1] >= scale[2]
      THEN NoDims
      ELSE [width |-> MathRound(origWidth * scale[1], scale[2]),
            height |-> MathRound(origHeight * scale[1], scale[2])]

\* The quality argument of canvas.toBlob: undefined, or a fraction <<num, den>>.
Undefined == <<>>

NoResult ==
  [kind |-> "null", width |-> 0, height |-> 0, newExtension |-> <<>>,
   outputMime |-> "", quality |-> Undefined]
ResizeError ==
  [kind |-> "error", width |-> 0, height |-> 0, newExtension |-> <<>>,
   outputMime |-> "", quality |-> Undefined]

\* Faulty variant: the conversion does not look at the extension.
resizeImage_AnyToJpeg(data, filename, s) ==
  LET ext == getExtension(filename)
      mimeType == getMimeType(ext)
      newDims == calculateDimensions(data.w, data.h, s.maxWidth, s.maxHeight)
      convert == s.convertToJpeg
      outputMime == IF convert THEN "image/jpeg" ELSE mimeType
      newExtension == IF convert THEN Jpg ELSE <<>>
      quality == IF outputMime = "image/png" THEN Undefined ELSE <<s.jpegQuality, 100>>
  IN  IF data.kind # "image" THEN ResizeError
      ELSE IF newDims = NoDims THEN NoResult
      ELSE IF newDims.width = 0 \/ newDims.height = 0 THEN ResizeError
      ELSE [kind |-> "result", width |-> newDims.width, height |-> newDims.height,
            newExtension |-> newExtension, outputMime |-> outputMime,
            quality |-> quality]

\* resizeImage: the decode fails on corrupt bytes, null when no resize is needed,
\* canvas.toBlob yields null for a canvas without pixels, else the result.
resizeImage(data, filename, s) ==
  LET ext == getExtension(filename)
      mimeType == getMimeType(ext)
      newDims == calculateDimensions(data.w, data.h, s.maxWidth, s.maxHeight)
      convert == s.convertToJpeg /\ ext = <<"p", "n", "g">>
      outputMime == IF convert THEN "image/jpeg" ELSE mimeType
      newExtension == IF convert THEN Jpg ELSE <<>>
      quality == IF outputMime = "image/png" THEN Undefined ELSE <<s.jpegQuality, 100>>
  IN  IF data.kind # "image" THEN ResizeError
      ELSE IF newDims = NoDims THEN NoResult
      ELSE IF newDims.width = 0 \/ newDims.height = 0 THEN ResizeError
      ELSE [kind |-> "result", width |-> newDims.width, height |-> newDims.height,
            newExtension |-> newExtension, outputMime |-> outputMime,
            quality |-> quality]

\* ------------------------------------------------------------------- state
VARIABLES
  ready,       \* the ready gate
  settings,    \* this.settings
  processing,  \* the Guard Set: a set of paths
  pending,     \* the Pending Timer Map: path -> time left of the timer it holds
  debTimers,   \* the live debounce timers: records [file, left]
  relTimers,   \* the live release timers: a bag of [kind, file, left]
  runs,        \* processFile calls in flight: a bag of [file, pc, data, result]
  batches,     \* batchResize calls in flight: a bag of records
  pastes,      \* pasteFullSize calls in flight, after the mark: a bag of records
  vault,       \* the host's storage: path -> content
  events,      \* create/modify events the host has emitted and not yet delivered
  commands,    \* external stimuli so far
  report,      \* the last batch summary notice
  burst,       \* history: per path, events that set a timer since the last firing
  markKind,    \* history: per marked path, which statements marked it
  graceLeft,   \* history: per path, what is left of the grace delay of the last write-back
  owed         \* history: oversize files an event was delivered for / a run started for

sched == <<pending, debTimers, burst>>
guard == <<processing, markKind>>
store == <<vault, events, graceLeft>>
calls == <<runs, batches, pastes>>

vars == <<ready, settings, processing, pending, debTimers, relTimers, runs, batches,
          pastes, vault, events, commands, report, burst, markKind, graceLeft, owed>>

NoTimer == -1
NoReport == [total |-> 0, resized |-> 0, skipped |-> 0, errors |-> 0, notices |-> 0]

DEFAULT_SETTINGS ==
  [maxWidth |-> DefaultMaxWidth, maxHeight |-> DefaultMaxHeight,
   jpegQuality |-> DefaultJpegQuality, convertToJpeg |-> FALSE,
   resizeOnPaste |-> TRUE, resizeOnDrop |-> TRUE]

One(x) == SetToBag({x})

Exists(v, p) == p \in Paths /\ v[p].kind # "none"

\* The file decodes and its dimensions exceed a limit that is set.
Oversize(data, s) ==
  /\ data.kind = "image"
  /\ \/ s.maxWidth > 0 /\ data.w > s.maxWidth
     \/ s.maxHeight > 0 /\ data.h > s.maxHeight

Enabled(s) == s.resizeOnPaste \/ s.resizeOnDrop

\* An obligation of the history ends when the file is within the limits, is gone,
\* or event-triggered resizing is switched off.
Settle(o, v, s) ==
  [k \in DOMAIN o |-> {p \in o[k] : Enabled(s) /\ Oversize(v[p], s)}]

Marked(m, p, kind) == [m EXCEPT ![p] = m[p] \cup {kind}]

\* Obsidian re-emits create events for the files the vault already holds.
Init ==
  /\ ready = FALSE
  /\ settings = DEFAULT_SETTINGS
  /\ processing = {}
  /\ pending = [p \in Paths |-> NoTimer]
  /\ debTimers = {}
  /\ relTimers = EmptyBag
  /\ runs = EmptyBag
  /\ batches = EmptyBag
  /\ pastes = EmptyBag
  /\ \E c \in {NoFile, Img(3840, 2160)} :
       /\ vault = [p \in Paths |-> IF p = PngPath THEN c ELSE NoFile]
       /\ events = IF c = NoFile THEN EmptyBag ELSE One(PngPath)
  /\ commands = 0
  /\ report = NoReport
  /\ burst = [p \in Paths |-> 0]
  /\ markKind = [p \in Paths |-> {}]
  /\ graceLeft = [p \in Paths |-> 0]
  /\ owed = [event |-> {}, run |-> {}]

\* ------------------------------------------------------------ host and time
onLayoutReady ==
  /\ ~ready
  /\ ready' = TRUE
  /\ UNCHANGED <<settings, sched, guard, store, calls, relTimers, commands, report, owed>>

\* The user or another plugin writes a file; the host emits create or modify.
HostWrite(p, c) ==
  /\ commands < MaxCommands
  /\ commands' = commands + 1
  /\ vault' = [vault EXCEPT ![p] = c]
  /\ events' = events (+) One(p)
  /\ owed' = Settle(owed, vault', settings)
  /\ UNCHANGED <<ready, settings, sched, guard, calls, relTimers, graceLeft, report>>

Dec(n) == IF n > 0 THEN n - 1 ELSE n

TimerDue ==
  \/ \E t \in debTimers : t.left = 0
  \/ \E t \in BagToSet(relTimers) : t.left = 0

TickBag(B) ==
  LET S == BagToSet(B)
      T == {[t EXCEPT !.left = Dec(t.left)] : t \in S}
  IN  [t \in T |-> CopiesIn([t EXCEPT !.left = t.left + 1], B)]

\* 500 ms pass: every timer that is due has fired.
Tick ==
  /\ ~TimerDue
  /\ \/ debTimers # {} \/ relTimers # EmptyBag
     \/ \E p \in Paths : graceLeft[p] > 0
  /\ debTimers' = {[t EXCEPT !.left = t.left - 1] : t \in debTimers}
  /\ pending' = [p \in Paths |-> IF pending[p] = NoTimer THEN NoTimer ELSE Dec(pending[p])]
  /\ relTimers' = TickBag(relTimers)
  /\ graceLeft' = [p \in Paths |-> Dec(graceLeft[p])]
  /\ UNCHANGED <<ready, settings, guard, calls, vault, events, commands, report, burst,
                 owed>>

\* ------------------------------------------------------- debounce scheduler
\* Faulty variant: scheduleResize without the ready gate.
ScheduleAccepts_NoGate(file) ==
  /\ isImageFile(file.name)
  /\ file.path \notin processing

\* The three early returns of scheduleResize.
ScheduleAccepts(file) ==
  /\ ready
  /\ isImageFile(file.name)
  /\ file.path \notin processing

\* Faulty variant: the previous timer is not cleared.
ClearExisting_Skipped(file) == debTimers

\* clearTimeout(existing), when the map holds a timer for the path.
ClearExisting(file) ==
  IF pending[file.path] # NoTimer
  THEN debTimers \ {[file |-> file, left |-> pending[file.path]]}
  ELSE debTimers

scheduleResize(file) ==
  IF ScheduleAccepts(file)
  THEN /\ debTimers' = ClearExisting(file) \cup {[file |-> file, left |-> DebounceDelay]}
       /\ pending' = [pending EXCEPT ![file.path] = DebounceDelay]
       /\ burst' = [burst EXCEPT ![file.path] = IF @ < MaxBurst THEN @ + 1 ELSE @]
  ELSE UNCHANGED sched

\* The create and modify handlers of onload: the host delivers one event.
DeliverEvent(p) ==
  /\ CopiesIn(p, events) > 0
  /\ events' = events (-) One(p)
  /\ scheduleResize(TFile(p))
  /\ owed' = IF ready /\ isImageFile(p)
             THEN Settle([owed EXCEPT !.event = @ \cup {p}], vault, settings)
             ELSE owed
  /\ UNCHANGED <<ready, settings, guard, calls, relTimers, vault, graceLeft, commands,
                 report>>

\* ------------------------------------------------------- single-file path
\* Faulty variant: processFile without its check of the Guard Set.
ProcessAccepts_NoGuard(file) ==
  /\ isImageFile(file.name)
  /\ settings.resizeOnPaste \/ settings.resizeOnDrop

\* Faulty variant: one trigger flag switched off is enough to return.
ProcessAccepts_BothFlags(file) ==
  /\ file.path \notin processing
  /\ isImageFile(file.name)
  /\ settings.resizeOnPaste /\ settings.resizeOnDrop

\* The early returns of processFile.
ProcessAccepts(file) ==
  /\ file.path \notin processing
  /\ isImageFile(file.name)
  /\ settings.resizeOnPaste \/ settings.resizeOnDrop

NewRun(file) == [file |-> file, pc |-> "readBinary", data |-> NoFile, result |-> NoResult]

\* processFile up to its first await.
processFile(file) ==
  IF ProcessAccepts(file)
  THEN /\ processing' = processing \cup {file.path}
       /\ markKind' = Marked(markKind, file.path, "own")
       /\ runs' = runs (+) One(NewRun(file))
       /\ owed' = Settle([owed EXCEPT !.run = @ \cup {file.path}], vault, settings)
  ELSE UNCHANGED <<guard, runs, owed>>

\* Faulty variant: the callback leaves its entry in the map.
PendingDelete_Kept(file) == pending

\* pending.delete(file.path) of the timer callback.
PendingDelete(file) == [pending EXCEPT ![file.path] = NoTimer]

\* The debounce timer's callback.
FireDebounce(t) ==
  /\ t \in debTimers
  /\ t.left = 0
  /\ debTimers' = debTimers \ {t}
  /\ pending' = PendingDelete(t.file)
  /\ burst' = [burst EXCEPT ![t.file.path] = 0]
  /\ processFile(t.file)
  /\ UNCHANGED <<ready, settings, store, batches, pastes, relTimers, commands, report>>

ReleaseTimer(kind, file, delay) == [kind |-> kind, file |-> file, left |-> delay]

\* Faulty variant: the release timer is not in a finally block and is never reached.
ProcessFinally_NoTimer(r) ==
  /\ runs' = runs (-) One(r)
  /\ UNCHANGED relTimers

\* The finally block of processFile: the run ends and its release timer starts.
ProcessFinally(r) ==
  /\ runs' = runs (-) One(r)
  /\ relTimers' = relTimers (+) One(ReleaseTimer("single", r.file, GraceDelay))

\* newName and newPath of processFile's rename.
ProcessNewPath(file, newExtension) ==
  ReplaceFirst(file.path, file.name, ReplaceExtension(file.name, newExtension))

\* await readBinary returns or throws.
ProcessRead(r) ==
  /\ r \in BagToSet(runs)
  /\ r.pc = "readBinary"
  /\ IF Exists(vault, r.file.path)
     THEN /\ runs' = (runs (-) One(r))
                       (+) One([r EXCEPT !.pc = "resizeImage", !.data = vault[r.file.path]])
          /\ UNCHANGED relTimers
     ELSE ProcessFinally(r)
  /\ UNCHANGED <<ready, settings, sched, guard, store, batches, pastes, commands, report,
                 owed>>

\* Faulty variant: a null from resizeImage is written back like a result.
ProcessResize_WritesNull(r) ==
  /\ r \in BagToSet(runs)
  /\ r.pc = "resizeImage"
  /\ LET result == resizeImage(r.data, r.file.name, settings)
     IN  IF result.kind # "error"
         THEN /\ runs' = (runs (-) One(r))
                           (+) One([r EXCEPT !.pc = "modifyBinary", !.result = result])
              /\ UNCHANGED relTimers
         ELSE ProcessFinally(r)
  /\ UNCHANGED <<ready, settings, sched, guard, store, batches, pastes, commands, report,
                 owed>>

\* await resizeImage returns a result, returns null or throws.
ProcessResize(r) ==
  /\ r \in BagToSet(runs)
  /\ r.pc = "resizeImage"
  /\ LET result == resizeImage(r.data, r.file.name, settings)
     IN  IF result.kind = "result"
         THEN /\ runs' = (runs (-) One(r))
                           (+) One([r EXCEPT !.pc = "modifyBinary", !.result = result])
              /\ UNCHANGED relTimers
         ELSE ProcessFinally(r)
  /\ UNCHANGED <<ready, settings, sched, guard, store, batches, pastes, commands, report,
                 owed>>

\* await modifyBinary returns or throws; on a format change the rename is issued.
ProcessWrite(r) ==
  /\ r \in BagToSet(runs)
  /\ r.pc = "modifyBinary"
  /\ LET path == r.file.path
         newPath == ProcessNewPath(r.file, r.result.newExtension)
         written == [vault EXCEPT ![path] = Img(r.result.width, r.result.height)]
     IN  IF ~Exists(vault, path)
         THEN /\ ProcessFinally(r)
              /\ UNCHANGED <<guard, store, owed>>
         ELSE /\ vault' = written
              /\ events' = events (+) One(path)
              /\ graceLeft' = [graceLeft EXCEPT ![path] = GraceDelay]
              /\ owed' = Settle(owed, vault', settings)
              /\ IF r.result.newExtension # <<>> /\ ~Exists(written, newPath)
                 THEN /\ processing' = processing \cup {newPath}
                      /\ markKind' = Marked(markKind, newPath, "target")
                      /\ runs' = (runs (-) One(r)) (+) One([r EXCEPT !.pc = "renameFile"])
                      /\ UNCHANGED relTimers
                 ELSE /\ ProcessFinally(r)
                      /\ UNCHANGED guard
  /\ UNCHANGED <<ready, settings, sched, batches, pastes, commands, report>>

\* fileManager.renameFile: the file moves to newPath, or the call throws.
Renamed(v, path, newPath) == [v EXCEPT ![newPath] = v[path], ![path] = NoFile]

\* Faulty variant: the rename replaces a file at the new path.
CanRename_Over(v, path, newPath) == Exists(v, path)

CanRename(v, path, newPath) == Exists(v, path) /\ ~Exists(v, newPath)

\* await renameFile returns or throws.
ProcessRename(r) ==
  /\ r \in BagToSet(runs)
  /\ r.pc = "renameFile"
  /\ LET path == r.file.path
         newPath == ProcessNewPath(r.file, r.result.newExtension)
     IN  IF CanRename(vault, path, newPath)
         THEN /\ vault' = Renamed(vault, path, newPath)
              /\ events' = events (+) One(newPath)
              /\ graceLeft' = [graceLeft EXCEPT ![newPath] = GraceDelay]
              /\ owed' = Settle(owed, vault', settings)
         ELSE UNCHANGED <<store, owed>>
  /\ ProcessFinally(r)
  /\ UNCHANGED <<ready, settings, sched, guard, batches, pastes, commands, report>>

\* The release timer of processFile's finally block.
ProcessRelease(file) ==
  {file.path} \cup
    IF settings.convertToJpeg /\ getExtension(file.name) = <<"p", "n", "g">>
    THEN {ReplaceExtension(file.path, Jpg)}
    ELSE {}

\* The release timer of batchResize's finally block.
BatchRelease(file) == {file.path}

\* The release timer of pasteFullSize.
PasteRelease(file) == {file.path}

\* What the callback of release timer t deletes from the Guard Set.
Released(t) ==
  CASE t.kind = "single" -> ProcessRelease(t.file)
    [] t.kind = "batch" -> BatchRelease(t.file)
    [] OTHER -> PasteRelease(t.file)

FireRelease(t) ==
  /\ t \in BagToSet(relTimers)
  /\ t.left = 0
  /\ relTimers' = relTimers (-) One(t)
  /\ processing' = processing \ Released(t)
  /\ markKind' = [p \in Paths |-> IF p \in Released(t) THEN {} ELSE markKind[p]]
  /\ UNCHANGED <<ready, settings, sched, store, calls, commands, report, owed>>

\* -------------------------------------------------------------- batch path
NewBatch(files) ==
  [files |-> files, i |-> 1, pc |-> "readBinary", data |-> NoFile, result |-> NoResult,
   resized |-> 0, skipped |-> 0, errors |-> 0]

\* The orders in which getFiles may list the files of S.
Orders(S) ==
  {f \in [1..Cardinality(S) -> S] : \A i, j \in 1..Cardinality(S) : f[i] = f[j] => i = j}

ImageFiles(v) == {TFile(p) : p \in {q \in Paths : Exists(v, q) /\ isImageFile(q)}}

\* batchResize up to its first await; an empty list only shows a notice.  Only
\* a command that starts something counts as a stimulus.
batchResize(files) ==
  /\ IF Len(files) = 0
     THEN UNCHANGED <<batches, commands>>
     ELSE /\ commands < MaxCommands
          /\ commands' = commands + 1
          /\ batches' = batches (+) One(NewBatch(files))
  /\ UNCHANGED <<ready, settings, sched, guard, store, runs, pastes, relTimers, report,
                 owed>>

resizeAllImages == \E files \in Orders(ImageFiles(vault)) : batchResize(files)

\* Without an active file the command only shows a notice.
resizeImagesInCurrentFolder(activeFile) ==
  IF activeFile
  THEN \E files \in Orders(ImageFiles(vault)) : batchResize(files)
  ELSE UNCHANGED vars

BatchFile(b) == b.files[b.i]

\* The finally block of one iteration (b2 carries the counters), then the next
\* iteration's read or, after the last file, the summary notice.
BatchFinally(b, b2) ==
  /\ relTimers' = relTimers (+) One(ReleaseTimer("batch", BatchFile(b), GraceDelay))
  /\ IF b.i = Len(b.files)
     THEN /\ batches' = batches (-) One(b)
          /\ report' = [total |-> Len(b.files), resized |-> b2.resized,
                        skipped |-> b2.skipped, errors |-> b2.errors,
                        notices |-> report.notices + 1]
     ELSE /\ batches' = (batches (-) One(b))
                          (+) One([b2 EXCEPT !.i = b.i + 1, !.pc = "readBinary",
                                             !.data = NoFile, !.result = NoResult])
          /\ UNCHANGED report

\* Faulty variant: the catch block does not count.
BatchError_NoCount(b) == BatchFinally(b, b)

BatchError(b) == BatchFinally(b, [b EXCEPT !.errors = b.errors + 1])

BatchStep(b, b2) ==
  /\ batches' = (batches (-) One(b)) (+) One(b2)
  /\ UNCHANGED <<relTimers, report>>

BatchRead(b) ==
  /\ b \in BagToSet(batches)
  /\ b.pc = "readBinary"
  /\ IF Exists(vault, BatchFile(b).path)
     THEN BatchStep(b, [b EXCEPT !.pc = "resizeImage", !.data = vault[BatchFile(b).path]])
     ELSE BatchError(b)
  /\ UNCHANGED <<ready, settings, sched, guard, store, runs, pastes, commands, owed>>

\* resizeImage returns: null is a skip, a result marks the path and issues the write.
BatchResize(b) ==
  /\ b \in BagToSet(batches)
  /\ b.pc = "resizeImage"
  /\ LET result == resizeImage(b.data, BatchFile(b).name, settings)
     IN  CASE result.kind = "error" ->
                /\ BatchError(b)
                /\ UNCHANGED guard
           [] result.kind = "null" ->
                /\ BatchFinally(b, [b EXCEPT !.skipped = b.skipped + 1])
                /\ UNCHANGED guard
           [] OTHER ->
                /\ processing' = processing \cup {BatchFile(b).path}
                /\ markKind' = Marked(markKind, BatchFile(b).path, "own")
                /\ BatchStep(b, [b EXCEPT !.pc = "modifyBinary", !.result = result])
  /\ UNCHANGED <<ready, settings, sched, store, runs, pastes, commands, owed>>

BatchNewPath(file, newExtension) == ReplaceExtension(file.path, newExtension)

\* Faulty variant: no pause, straight back to the read.
Sleeping_NoPause(b) == [b EXCEPT !.resized = b.resized + 1, !.pc = "readBinary"]

\* resizedCount++ and the await of sleep(100).
Sleeping(b) == [b EXCEPT !.resized = b.resized + 1, !.pc = "sleep"]

BatchWrite(b) ==
  /\ b \in BagToSet(batches)
  /\ b.pc = "modifyBinary"
  /\ LET path == BatchFile(b).path
         newPath == BatchNewPath(BatchFile(b), b.result.newExtension)
         written == [vault EXCEPT ![path] = Img(b.result.width, b.result.height)]
     IN  IF ~Exists(vault, path)
         THEN /\ BatchError(b)
              /\ UNCHANGED <<guard, store, owed>>
         ELSE /\ vault' = written
              /\ events' = events (+) One(path)
              /\ graceLeft' = [graceLeft EXCEPT ![path] = GraceDelay]
              /\ owed' = Settle(owed, vault', settings)
              /\ IF b.result.newExtension # <<>> /\ ~Exists(written, newPath)
                 THEN /\ processing' = processing \cup {newPath}
                      /\ markKind' = Marked(markKind, newPath, "target")
                      /\ BatchStep(b, [b EXCEPT !.pc = "renameFile"])
                 ELSE /\ BatchStep(b, Sleeping(b))
                      /\ UNCHANGED guard
  /\ UNCHANGED <<ready, settings, sched, runs, pastes, commands>>

BatchRename(b) ==
  /\ b \in BagToSet(batches)
  /\ b.pc = "renameFile"
  /\ LET path == BatchFile(b).path
         newPath == BatchNewPath(BatchFile(b), b.result.newExtension)
     IN  IF CanRename(vault, path, newPath)
         THEN /\ vault' = Renamed(vault, path, newPath)
              /\ events' = events (+) One(newPath)
              /\ graceLeft' = [graceLeft EXCEPT ![newPath] = GraceDelay]
              /\ owed' = Settle(owed, vault', settings)
              /\ BatchStep(b, Sleeping(b))
         ELSE /\ BatchError(b)
              /\ UNCHANGED <<store, owed>>
  /\ UNCHANGED <<ready, settings, sched, guard, runs, pastes, commands>>

\* sleep(100) is over.
BatchSleepDone(b) ==
  /\ b \in BagToSet(batches)
  /\ b.pc = "sleep"
  /\ BatchFinally(b, b)
  /\ UNCHANGED <<ready, settings, sched, guard, store, runs, pastes, commands, owed>>

\* -------------------------------------------------------------- paste path
ClipboardImage == Img(3840, 2160)

PasteExtension(mimeType) ==
  CASE mimeType = "image/png" -> <<"p", "n", "g">>
    [] mimeType = "image/jpeg" -> <<"j", "p", "g">>
    [] mimeType = "image/webp" -> <<"w", "e", "b", "p">>
    [] mimeType = "image/bmp" -> <<"b", "m", "p">>
    [] OTHER -> <<"p", "n", "g">>

\* pasteFullSize up to the await after the mark; mimeType "" is a clipboard
\* without an image.
pasteFullSize(mimeType) ==
  /\ IF mimeType = ""
     THEN UNCHANGED <<guard, pastes, commands>>
     ELSE LET fullPath == <<Stem, Dot>> \o PasteExtension(mimeType)
          IN  /\ commands < MaxCommands
              /\ commands' = commands + 1
              /\ processing' = processing \cup {fullPath}
              /\ markKind' = Marked(markKind, fullPath, "paste")
              /\ pastes' = pastes (+) One([file |-> TFile(fullPath), pc |-> "createBinary"])
  /\ UNCHANGED <<ready, settings, sched, store, runs, batches, relTimers, report, owed>>

\* await createBinary returns or throws (a file is already there).
PasteCreate(ps) ==
  /\ ps \in BagToSet(pastes)
  /\ pastes' = pastes (-) One(ps)
  /\ IF ~Exists(vault, ps.file.path)
     THEN /\ vault' = [vault EXCEPT ![ps.file.path] = ClipboardImage]
          /\ events' = events (+) One(ps.file.path)
          /\ relTimers' = relTimers (+) One(ReleaseTimer("paste", ps.file, PasteGraceDelay))
     ELSE UNCHANGED <<vault, events, relTimers>>
  /\ UNCHANGED <<ready, settings, sched, guard, runs, batches, commands, report,
                 graceLeft, owed>>

\* ---------------------------------------------------------------- settings
\* The onChange handlers of the settings tab.
ChangeSetting(s2) ==
  /\ commands < MaxCommands
  /\ commands' = commands + 1
  /\ settings' = s2
  /\ owed' = Settle(owed, vault, s2)
  /\ UNCHANGED <<ready, sched, guard, store, calls, relTimers, report>>

SetMaxWidth(num) ==
  ChangeSetting(IF num >= 0 THEN [settings EXCEPT !.maxWidth = num] ELSE settings)

SetMaxHeight(num) ==
  ChangeSetting(IF num >= 0 THEN [settings EXCEPT !.maxHeight = num] ELSE settings)

SetJpegQuality(value) == ChangeSetting([settings EXCEPT !.jpegQuality = value])

SetConvertToJpeg(value) == ChangeSetting([settings EXCEPT !.convertToJpeg = value])

SetResizeOnPaste(value) == ChangeSetting([settings EXCEPT !.resizeOnPaste = value])

SetResizeOnDrop(value) == ChangeSetting([settings EXCEPT !.resizeOnDrop = value])

\* ------------------------------------------------------------ specification
\* What the plugin and the host do on their own.
Internal ==
  \/ onLayoutReady
  \/ Tick
  \/ \E p \in Paths : DeliverEvent(p)
  \/ \E t \in debTimers : FireDebounce(t)
  \/ \E r \in BagToSet(runs) : ProcessRead(r)
  \/ \E r \in BagToSet(runs) : ProcessResize(r)
  \/ \E r \in BagToSet(runs) : ProcessWrite(r)
  \/ \E r \in BagToSet(runs) : ProcessRename(r)
  \/ \E t \in BagToSet(relTimers) : FireRelease(t)
  \/ \E b \in BagToSet(batches) : BatchRead(b)
  \/ \E b \in BagToSet(batches) : BatchResize(b)
  \/ \E b \in BagToSet(batches) : BatchWrite(b)
  \/ \E b \in BagToSet(batches) : BatchRename(b)
  \/ \E b \in BagToSet(batches) : BatchSleepDone(b)
  \/ \E ps \in BagToSet(pastes) : PasteCreate(ps)

\* What the user does.
External ==
  \/ \E p \in Paths, c \in HostContents : HostWrite(p, c)
  \/ resizeAllImages
  \/ \E activeFile \in BOOLEAN : resizeImagesInCurrentFolder(activeFile)
  \/ \E mimeType \in {"", "image/png", "image/jpeg"} : pasteFullSize(mimeType)
  \/ \E num \in {0, DefaultMaxWidth} \ {settings.maxWidth} : SetMaxWidth(num)
  \/ \E num \in {0, DefaultMaxHeight} \ {settings.maxHeight} : SetMaxHeight(num)
  \/ \E value \in {DefaultJpegQuality, 100} \ {settings.jpegQuality} : SetJpegQuality(value)
  \/ \E value \in BOOLEAN \ {settings.convertToJpeg} : SetConvertToJpeg(value)
  \/ \E value \in BOOLEAN \ {settings.resizeOnPaste} : SetResizeOnPaste(value)
  \/ \E value \in BOOLEAN \ {settings.resizeOnDrop} : SetResizeOnDrop(value)

Next == Internal \/ External

Spec == Init /\ [][Next]_vars

\* Timers fire, awaits return and the host delivers its events.
FairSpec == Spec /\ WF_vars(Internal)

\* ------------------------------------------- the resize engine on its own
\* Image sizes and limits the engine is run on: <<width, height, maxWidth,
\* maxHeight>>, all small ones and the sizes of a screenshot, a tall scan and a
\* panorama.  A decoder may report a side of 0.
EngineInputs ==
  ((0..MaxSide) \X (0..MaxSide) \X (0..MaxLimit) \X (0..MaxLimit))
    \cup {<<3840, 2160, 1920, 1080>>, <<500, 2000, 0, 1080>>, <<4000, 1000, 1920, 0>>,
          <<4000, 1, 1920, 1080>>}

\* processFile has marked a file of the vault and awaits its read.
EngineInit ==
  \E in \in EngineInputs, path \in {PngPath, JpgPath}, convert \in BOOLEAN,
     quality \in {DefaultJpegQuality, 100} :
    /\ ready = TRUE
    /\ settings = [DEFAULT_SETTINGS EXCEPT !.maxWidth = in[3], !.maxHeight = in[4],
                                           !.convertToJpeg = convert,
                                           !.jpegQuality = quality]
    /\ processing = {path}
    /\ pending = [p \in Paths |-> NoTimer]
    /\ debTimers = {}
    /\ relTimers = EmptyBag
    /\ runs = One(NewRun(TFile(path)))
    /\ batches = EmptyBag
    /\ pastes = EmptyBag
    /\ vault = [p \in Paths |-> IF p = path THEN Img(in[1], in[2]) ELSE NoFile]
    /\ events = EmptyBag
    /\ commands = 0
    /\ report = NoReport
    /\ burst = [p \in Paths |-> 0]
    /\ markKind = [p \in Paths |-> IF p = path THEN {"own"} ELSE {}]
    /\ graceLeft = [p \in Paths |-> 0]
    /\ owed = Settle([event |-> {path}, run |-> {path}], vault, settings)

\* The single-file path left to itself.
EngineNext ==
  \/ Tick
  \/ \E p \in Paths : DeliverEvent(p)
  \/ \E t \in debTimers : FireDebounce(t)
  \/ \E r \in BagToSet(runs) : ProcessRead(r)
  \/ \E r \in BagToSet(runs) : ProcessResize(r)
  \/ \E r \in BagToSet(runs) : ProcessWrite(r)
  \/ \E r \in BagToSet(runs) : ProcessRename(r)
  \/ \E t \in BagToSet(relTimers) : FireRelease(t)

EngineSpec == EngineInit /\ [][EngineNext]_vars

\* ----------------------------------------- starting from saved trigger flags
\* loadSettings merges the saved data over the defaults: the plugin may start
\* with either trigger flag off.  The vault holds one oversize image.
LoadedInit ==
  \E paste \in BOOLEAN, drop \in BOOLEAN :
    /\ ready = FALSE
    /\ settings = [DEFAULT_SETTINGS EXCEPT !.resizeOnPaste = paste, !.resizeOnDrop = drop]
    /\ processing = {}
    /\ pending = [p \in Paths |-> NoTimer]
    /\ debTimers = {}
    /\ relTimers = EmptyBag
    /\ runs = EmptyBag
    /\ batches = EmptyBag
    /\ pastes = EmptyBag
    /\ vault = [p \in Paths |-> IF p = PngPath THEN Img(3840, 2160) ELSE NoFile]
    /\ events = One(PngPath)
    /\ commands = 0
    /\ report = NoReport
    /\ burst = [p \in Paths |-> 0]
    /\ markKind = [p \in Paths |-> {}]
    /\ graceLeft = [p \in Paths |-> 0]
    /\ owed = [event |-> {}, run |-> {}]

\* The event path, the batch command and the two trigger toggles; no format
\* conversion and no paste command.
FlagNext ==
  \/ onLayoutReady
  \/ Tick
  \/ \E p \in Paths : DeliverEvent(p)
  \/ \E t \in debTimers : FireDebounce(t)
  \/ \E r \in BagToSet(runs) : ProcessRead(r)
  \/ \E r \in BagToSet(runs) : ProcessResize(r)
  \/ \E r \in BagToSet(runs) : ProcessWrite(r)
  \/ \E t \in BagToSet(relTimers) : FireRelease(t)
  \/ \E b \in BagToSet(batches) : BatchRead(b)
  \/ \E b \in BagToSet(batches) : BatchResize(b)
  \/ \E b \in BagToSet(batches) : BatchWrite(b)
  \/ \E b \in BagToSet(batches) : BatchSleepDone(b)
  \/ \E p \in Paths, c \in HostContents : HostWrite(p, c)
  \/ resizeAllImages
  \/ \E value \in BOOLEAN \ {settings.resizeOnPaste} : SetResizeOnPaste(value)
  \/ \E value \in BOOLEAN \ {settings.resizeOnDrop} : SetResizeOnDrop(value)

FlagSpec == LoadedInit /\ [][FlagNext]_vars

\* Nothing is pending: no event, timer or call in flight.
Quiescent ==
  /\ events = EmptyBag
  /\ debTimers = {}
  /\ relTimers = EmptyBag
  /\ runs = EmptyBag
  /\ batches = EmptyBag
  /\ pastes = EmptyBag

\* ------------------------------------------------------------------ claims
\* The debounce timer t fires in this step.
Fired(t) == t \in debTimers /\ t.left = 0 /\ t \notin debTimers' /\ events' = events

\* The host delivers an event for p in this step.
Delivered(p) == CopiesIn(p, events') < CopiesIn(p, events)

\* A processFile run for p passes the early returns in this step.
Started(p) == CopiesIn(NewRun(TFile(p)), runs') > CopiesIn(NewRun(TFile(p)), runs)

TimersOf(p) == {t \in debTimers : t.file.path = p}

\* C1: the event-triggered path never starts processing a path that is in the
\* Guard Set: a run starts only for an unmarked path, an event for a marked path
\* changes no timer, and a timer that fires for a marked path starts nothing.
C1_GuardInvariant ==
  [][\A p \in Paths :
       /\ Started(p) => p \notin processing
       /\ (Delivered(p) /\ p \in processing) => UNCHANGED <<pending, debTimers>>
       /\ ((\E t \in TimersOf(p) : Fired(t)) /\ p \in processing)
            => UNCHANGED <<runs, relTimers, processing, vault>>]_vars

\* C1: a timer is due for a path that was marked after the timer was set, and
\* another event for that path waits.
C1_Witness ==
  \E p \in Paths :
    /\ p \in processing
    /\ CopiesIn(p, events) > 0
    /\ \E t \in TimersOf(p) : t.left = 0

\* C2: a burst of events on one path ends in exactly one invocation, one quiet
\* period after its last event: while a burst is open the path has exactly one
\* timer, outside a burst it has none, and every event that sets a timer leaves
\* the path with one timer that has the whole quiet period to run.
C2_Debounce ==
  /\ [](\A p \in Paths : Cardinality(TimersOf(p)) = IF burst[p] > 0 THEN 1 ELSE 0)
  /\ [][\A p \in Paths :
          (Delivered(p) /\ ScheduleAccepts(TFile(p)))
            => {t \in debTimers' : t.file.path = p}
                 = {[file |-> TFile(p), left |-> DebounceDelay]}]_vars
  /\ [][\A p \in Paths :
          (\E t \in TimersOf(p) : Fired(t))
            => /\ burst[p] > 0 /\ burst'[p] = 0
               /\ {t \in debTimers' : t.file.path = p} = {}]_vars

\* C2: two or more events were coalesced and their one timer is due.
C2_Witness ==
  \E p \in Paths :
    /\ burst[p] >= 2
    /\ p \notin processing
    /\ TimersOf(p) = {[file |-> TFile(p), left |-> 0]}

\* C3 as stated: every event for an oversize image that is delivered while the
\* gate is open and resizing is enabled ends with the file within the limits:
\* once nothing is pending and the Guard Set is empty, no such file is left.
C3_EveryEventResized == (Quiescent /\ processing = {}) => owed.event = {}

\* C3 as amended: every event for an oversize image whose debounce timer fires
\* while the path is not in the Guard Set, the gate open and resizing enabled,
\* ends with the file within the limits.
C3_AcceptedEventResized == Quiescent => owed.run = {}

\* C3: the event of the oversize file the vault started with was processed and
\* the file written back within the limits.
C3_Witness ==
  /\ Quiescent
  /\ ready
  /\ commands = 0
  /\ vault[PngPath] = Img(1920, 1080)

\* The content c exceeds a limit that is set now.
Over(c) == Oversize(c, settings)

\* The steps a thing in flight can still cause, everything it starts included: a
\* release timer, a run that finds nothing to resize, an event that leads to
\* such a run, and a run that writes back and renames, with the echo events of
\* both.
RelSteps == GraceDelay + 1
ResizeStepsLo == 1 + RelSteps
ReadStepsLo == 1 + ResizeStepsLo
EventStepsLo == 1 + DebounceDelay + 1 + ReadStepsLo
SleepSteps == 1 + RelSteps
RenameSteps == 1 + GraceDelay + EventStepsLo + SleepSteps
WriteSteps == 1 + GraceDelay + EventStepsLo + RenameSteps
ResizeStepsHi == 1 + WriteSteps
ReadStepsHi == 1 + ResizeStepsHi

ReadSteps(p) == IF Over(vault[p]) THEN ReadStepsHi ELSE ReadStepsLo

\* The sum of F over the bag B: the size of B with every element counted F
\* times.  F is positive.
Weigh(B, F(_)) ==
  IF B = EmptyBag THEN 0
  ELSE BagCardinality([x \in BagToSet(B) |-> CopiesIn(x, B) * F(x)])

\* The number of elements x of the bag B with P(x).
Count(B, P(_)) ==
  IF B = EmptyBag THEN 0
  ELSE LET S == {y \in BagToSet(B) : P(y)}
       IN  IF S = {} THEN 0 ELSE BagCardinality([x \in S |-> CopiesIn(x, B)])

PathSum(F(_)) == F(PngPath) + F(JpgPath) + F(NotePath)

\* A call at pc, on the file at path, with data in hand.
CallSteps(pc, path, data) ==
  CASE pc = "readBinary" -> ReadSteps(path)
    [] pc = "resizeImage" -> IF Over(data) THEN ResizeStepsHi ELSE ResizeStepsLo
    [] pc = "modifyBinary" -> WriteSteps
    [] pc = "renameFile" -> RenameSteps
    [] OTHER -> SleepSteps

\* The files a batch has not come to yet, from the j-th on.
RECURSIVE LaterSteps(_, _)
LaterSteps(b, j) ==
  IF j > Len(b.files) THEN 0
  ELSE ReadSteps(b.files[j].path) + LaterSteps(b, j + 1)

RunSteps(r) == CallSteps(r.pc, r.file.path, r.data)

BatchSteps(b) == CallSteps(b.pc, BatchFile(b).path, b.data) + LaterSteps(b, b.i + 1)

ReleaseSteps(t) == t.left + 1

PasteSteps(ps) == 1 + EventStepsLo + PasteGraceDelay + 1

EventWork(p) == CopiesIn(p, events) * (1 + DebounceDelay + 1 + ReadSteps(p))

DebounceWork(p) ==
  IF pending[p] = NoTimer THEN 0 ELSE pending[p] + 1 + ReadSteps(p)

GraceWork(p) == graceLeft[p]

\* The variant: the steps still to come if no further stimulus arrives.
Work ==
  (IF ready THEN 0 ELSE 1)
    + PathSum(GraceWork) + PathSum(EventWork) + PathSum(DebounceWork)
    + Weigh(relTimers, ReleaseSteps) + Weigh(runs, RunSteps)
    + Weigh(batches, BatchSteps) + Weigh(pastes, PasteSteps)

\* Content that is not in the vault yet and exceeds the limits: the clipboard
\* image of a paste in flight, and a result computed under limits that a
\* settings change has lowered since.
Stale(x) == x.pc = "modifyBinary" /\ Over(Img(x.result.width, x.result.height))

Unwritten ==
  Count(runs, Stale) + Count(batches, Stale)
    + Count(pastes, LAMBDA ps : Over(ClipboardImage))

\* Renames in flight whose source exceeds the limits.
Unmoved ==
  Count(runs, LAMBDA r : r.pc = "renameFile" /\ Over(vault[r.file.path]))
    + Count(batches, LAMBDA b : b.pc = "renameFile" /\ Over(vault[BatchFile(b).path]))

\* The variant falls in this step, in the lexicographic order.
VariantFalls ==
  LET u == Unwritten
      u2 == Unwritten'
      m == Unmoved
      m2 == Unmoved'
  IN  \/ u2 < u
      \/ u2 = u /\ m2 < m
      \/ u2 = u /\ m2 = m /\ Work' < Work

\* Every call in flight is at one of its awaits, each of which returns in a
\* step; an event can always be delivered and a timer always ticks or fires.
CanStep ==
  /\ \A r \in BagToSet(runs) :
       r.pc \in {"readBinary", "resizeImage", "modifyBinary", "renameFile"}
  /\ \A b \in BagToSet(batches) :
       /\ b.pc \in {"readBinary", "resizeImage", "modifyBinary", "renameFile", "sleep"}
       /\ b.i \in 1..Len(b.files)
  /\ \A ps \in BagToSet(pastes) : ps.pc = "createBinary"
  /\ \A t \in debTimers : t.left \in 0..DebounceDelay
  /\ \A t \in BagToSet(relTimers) : t.left \in 0..PasteGraceDelay

\* C4: with an echo event for every write-back, rename and paste, no stimulus is
\* followed by an endless chain of resizeImage calls and write-backs.  Every step
\* that is not a stimulus lowers the variant <<Unwritten, Unmoved, Work>> in the
\* lexicographic order: an echo is dropped by the guard or is processed at the
\* cost of a run that writes nothing.  So finitely many stimuli are followed by
\* finitely many steps, and since whatever is in flight can take its step, the
\* system then is idle (under the fairness of FairSpec).
C4_NoFeedbackLoop ==
  /\ [][commands' = commands => VariantFalls]_vars
  /\ []CanStep

\* C4: the echo of a write-back outlived the guard and is being processed.
C4_Witness ==
  \E r \in BagToSet(runs) :
    /\ r.pc = "resizeImage"
    /\ r.data = Img(1920, 1080)
    /\ commands = 0

\* Something will still delete p from the Guard Set: a live release timer, or a
\* call in flight that ends in the finally block that starts one.
HasReleaser(p) ==
  \/ \E t \in BagToSet(relTimers) : t.file.path = p
  \/ \E r \in BagToSet(runs) : r.file.path = p
  \/ \E b \in BagToSet(batches) :
       BatchFile(b).path = p /\ b.pc \in {"modifyBinary", "renameFile", "sleep"}

\* C5: a path that processFile or batchResize marked as the file it processes
\* is released on every exit path: while it is marked its release is under way,
\* and the release timer's callback removes it.
C5_GuardReleased ==
  /\ [](\A p \in Paths : "own" \in markKind[p] => p \in processing /\ HasReleaser(p))
  /\ [][\A t \in BagToSet(relTimers) :
          (t.left = 0 /\ CopiesIn(t, relTimers') < CopiesIn(t, relTimers))
            => t.file.path \notin processing']_vars

\* C5: processFile ended in a decode error and its release timer runs.
C5_Witness ==
  \E p \in Paths :
    /\ "own" \in markKind[p]
    /\ vault[p] = Corrupt
    /\ runs = EmptyBag /\ batches = EmptyBag
    /\ \E t \in BagToSet(relTimers) : t.kind = "single" /\ t.file.path = p

\* C6 as stated: no rename target stays in the Guard Set once nothing is pending.
C6_TargetsReleased == Quiescent => \A p \in Paths : "target" \notin markKind[p]

\* C7 as stated: a write is issued only for a marked path and a rename only for
\* a marked target.
C7_MarkBeforeWrite ==
  [][/\ \A r \in BagToSet(runs') \ BagToSet(runs) :
          /\ r.pc = "modifyBinary" => r.file.path \in processing'
          /\ r.pc = "renameFile"
               => ProcessNewPath(r.file, r.result.newExtension) \in processing'
     /\ \A b \in BagToSet(batches') \ BagToSet(batches) :
          /\ b.pc = "modifyBinary" => BatchFile(b).path \in processing'
          /\ b.pc = "renameFile"
               => BatchNewPath(BatchFile(b), b.result.newExtension) \in processing']_vars

\* C8 as stated: for the whole grace delay after a write-back to p, p is in the
\* Guard Set.
C8_GraceWindow == \A p \in Paths : graceLeft[p] > 0 => p \in processing

\* C9: the Pending Timer Map holds exactly the live debounce timers, at most one
\* per path, and the entry of a timer that fired is gone.
C9_PendingMap ==
  /\ debTimers = {[file |-> TFile(p), left |-> pending[p]] :
                    p \in {q \in Paths : pending[q] # NoTimer}}
  /\ \A p \in Paths : Cardinality(TimersOf(p)) <= 1

\* C9: an event re-armed the timer of a path that already had one.
C9_Witness ==
  \E p \in Paths : burst[p] >= 2 /\ pending[p] = DebounceDelay

\* C10: ready starts false and never falls back; while it is false no event sets
\* a timer or starts a run, and an event delivered then changes nothing else.
C10_ReadyGate ==
  /\ ~ready
  /\ [][ready => ready']_vars
  /\ [](~ready => /\ debTimers = {}
                  /\ \A p \in Paths : pending[p] = NoTimer /\ burst[p] = 0
                  /\ runs = EmptyBag
                  /\ \A t \in BagToSet(relTimers) : t.kind # "single")
  /\ [][\A p \in Paths :
          (Delivered(p) /\ ~ready)
            => UNCHANGED <<ready, settings, sched, guard, calls, relTimers, vault,
                           graceLeft, commands, report, owed>>]_vars

\* C10: the event of the file the vault started with was delivered before the
\* gate opened; the gate is open and nothing was or will be done for the file.
C10_Witness ==
  /\ ready
  /\ commands = 0
  /\ Quiescent
  /\ processing = {}
  /\ vault[PngPath] = Img(3840, 2160)

\* The steps one file of a batch goes through, in order.
BatchPcOrder ==
  {<<"readBinary", "resizeImage">>, <<"resizeImage", "modifyBinary">>,
   <<"modifyBinary", "renameFile">>, <<"modifyBinary", "sleep">>,
   <<"renameFile", "sleep">>}

\* b2 is the next position of the batch at b: either the next step of the same
\* file (the pause when and only when the file was resized), or the read of the
\* next file of the list once file i is done: its pause is over, or it was
\* skipped or failed without being counted as resized.
BatchFollows(b, b2) ==
  /\ b2.files = b.files
  /\ \/ /\ b2.i = b.i
        /\ <<b.pc, b2.pc>> \in BatchPcOrder
        /\ b2.resized = b.resized + (IF b2.pc = "sleep" THEN 1 ELSE 0)
     \/ /\ b2.i = b.i + 1
        /\ b2.pc = "readBinary"
        /\ b2.resized = b.resized
        /\ b.pc # "sleep" => b2.skipped + b2.errors = b.skipped + b.errors + 1

\* C11: a batch run has one position: every step of it moves that position to
\* the next step of the same file or, once the file is done (after its pause
\* when it was resized), to the read of the next file of the list; a run ends
\* only on its last file and nothing but a command starts one.
C11_BatchSerial ==
  [][LET gone == batches (-) batches'
         new == batches' (-) batches
     IN  /\ BagCardinality(gone) <= 1
         /\ BagCardinality(new) <= 1
         /\ \A b \in BagToSet(gone) :
              IF new = EmptyBag
              THEN b.i = Len(b.files)
              ELSE \A b2 \in BagToSet(new) : BatchFollows(b, b2)
         /\ \A b2 \in BagToSet(new) :
              gone = EmptyBag => (b2 = NewBatch(b2.files) /\ commands' = commands + 1)]_vars

\* C11: a batch resized its first file, paused, and is at its second file.
C11_Witness ==
  \E b \in BagToSet(batches) : b.i = 2 /\ b.resized = 1 /\ b.pc = "resizeImage"

\* The call the batch at b is waiting for throws.
BatchFails(b) ==
  \/ b.pc = "readBinary" /\ ~Exists(vault, BatchFile(b).path)
  \/ b.pc = "resizeImage" /\ resizeImage(b.data, BatchFile(b).name, settings).kind = "error"
  \/ b.pc = "modifyBinary" /\ ~Exists(vault, BatchFile(b).path)
  \/ /\ b.pc = "renameFile"
     /\ ~CanRename(vault, BatchFile(b).path,
                   BatchNewPath(BatchFile(b), b.result.newExtension))

\* resizeImage returns null to the batch at b.
BatchSkips(b) ==
  b.pc = "resizeImage" /\ resizeImage(b.data, BatchFile(b).name, settings).kind = "null"

\* The files of b that are counted: those before file i, and file i once it is
\* counted as resized.
BatchHandled(b) == (b.i - 1) + (IF b.pc = "sleep" THEN 1 ELSE 0)

\* From counters c to counters c2 a failure is counted exactly when the awaited
\* call threw, and a skip exactly when resizeImage returned null.
BatchCounts(b, c2) ==
  /\ c2.errors = b.errors + (IF BatchFails(b) THEN 1 ELSE 0)
  /\ c2.skipped = b.skipped + (IF BatchSkips(b) THEN 1 ELSE 0)

\* C12: every file of a batch is attempted and counted in exactly one of the three
\* counters: errorCount counts the files whose read, decode, encode, write or
\* rename threw, and the run goes on after a failure; the summary is reported
\* once per run, when the last file has been handled, and accounts for all N
\* files.
C12_BatchAccounting ==
  /\ [](\A b \in BagToSet(batches) :
          /\ b.i \in 1..Len(b.files)
          /\ b.resized + b.skipped + b.errors = BatchHandled(b))
  /\ [](report.resized + report.skipped + report.errors = report.total)
  /\ [][LET gone == batches (-) batches'
            new == batches' (-) batches
        IN  /\ \A b \in BagToSet(gone) :
                 IF new = EmptyBag
                 THEN /\ report'.notices = report.notices + 1
                      /\ report'.total = Len(b.files)
                      /\ BatchCounts(b, report')
                 ELSE /\ report' = report
                      /\ \A b2 \in BagToSet(new) : BatchCounts(b, b2)
            /\ gone = EmptyBag => report' = report]_vars

\* C12: a batch of two files, one of which failed, has reported.
C12_Witness ==
  /\ batches = EmptyBag
  /\ report.notices = 1
  /\ report.total = 2
  /\ report.errors = 1
  /\ report.resized = 1

\* resizeImage returns null or throws for the call at x (a run or a batch).
NoOutcome(x, name) ==
  x.pc = "resizeImage" /\ resizeImage(x.data, name, settings).kind # "result"

\* C13: when resizeImage returns null or throws, the step that takes its answer
\* leaves the vault as it is and emits no event, the single-file run ends there,
\* and the batch goes on to its next file; a run or batch that is at a write or
\* a rename holds a resize result.
C13_NonDestructive ==
  /\ [](\A r \in BagToSet(runs) :
          r.pc \in {"modifyBinary", "renameFile"} => r.result.kind = "result")
  /\ [](\A b \in BagToSet(batches) :
          b.pc \in {"modifyBinary", "renameFile", "sleep"} => b.result.kind = "result")
  /\ [][/\ \A r \in BagToSet(runs (-) runs') :
             NoOutcome(r, r.file.name)
               => /\ vault' = vault
                  /\ events' = events
                  /\ runs' (-) runs = EmptyBag
        /\ \A b \in BagToSet(batches (-) batches') :
             NoOutcome(b, BatchFile(b).name)
               => /\ vault' = vault
                  /\ events' = events
                  /\ \A b2 \in BagToSet(batches' (-) batches) :
                       b2.i = b.i + 1 /\ b2.pc = "readBinary"]_vars

\* C13: the run of a file with corrupt bytes has just ended without a write,
\* and a batch has skipped a file that was within the limits.
C13_Witness ==
  /\ \E t \in BagToSet(relTimers) :
       /\ t.kind = "single"
       /\ t.left = GraceDelay
       /\ vault[t.file.path] = Corrupt
       /\ graceLeft[t.file.path] = 0
  /\ \E b \in BagToSet(batches) : b.skipped = 1

\* ------------------------------------------------------- the resize engine
\* The runs that hold a decoded image: resizeImage is awaited or has returned.
Planning == {r \in BagToSet(runs) : r.pc # "readBinary" /\ r.data.kind = "image"}

\* The arguments of their calculateDimensions calls.
PlanCalls ==
  {<<r.data.w, r.data.h, settings.maxWidth, settings.maxHeight>> : r \in Planning}

\* The calls on an image with positive sides.
PositiveCalls == {c \in PlanCalls : c[1] > 0 /\ c[2] > 0}

\* Both sides are within the limits that are set.
WithinLimits(w, h, maxW, maxH) == (maxW = 0 \/ w <= maxW) /\ (maxH = 0 \/ h <= maxH)

\* The per-axis shrink factors that apply, as fractions.
ShrinkFactors(w, h, maxW, maxH) ==
  (IF maxW > 0 /\ w > maxW THEN {<<maxW, w>>} ELSE {})
    \cup (IF maxH > 0 /\ h > maxH THEN {<<maxH, h>>} ELSE {})

\* The smallest fraction of a non-empty set of fractions.
MinFactor(F) == CHOOSE f \in F : \A g \in F : f[1] * g[2] <= g[1] * f[2]

\* The nearest integer to n / d, the upper one of two.
Nearest(n, d) == CHOOSE k \in 0..(n \div d + 1) : -d < 2 * (k * d - n) /\ 2 * (k * d - n) <= d

\* The result for c is the one the limits call for.
PlanAsDecided(c) ==
  LET dims == calculateDimensions(c[1], c[2], c[3], c[4])
  IN  IF WithinLimits(c[1], c[2], c[3], c[4])
      THEN dims = NoDims
      ELSE LET s == MinFactor(ShrinkFactors(c[1], c[2], c[3], c[4]))
           IN  dims = [width |-> Nearest(c[1] * s[1], s[2]),
                       height |-> Nearest(c[2] * s[1], s[2])]

WithinOnePixel(k, n, d) == -d <= k * d - n /\ k * d - n <= d

\* C15: a target of calculateDimensions is no larger than the image on either
\* side, and one scale puts both of its sides within a pixel of the scaled
\* sides of the image.
C15_TargetBounds ==
  \A c \in PositiveCalls :
    LET dims == calculateDimensions(c[1], c[2], c[3], c[4])
    IN  dims # NoDims
          => /\ dims.width <= c[1]
             /\ dims.height <= c[2]
             /\ \E s \in ShrinkFactors(c[1], c[2], c[3], c[4]) :
                  /\ WithinOnePixel(dims.width, c[1] * s[1], s[2])
                  /\ WithinOnePixel(dims.height, c[2] * s[1], s[2])

\* C15: the panorama was planned with only the width limited, and the run is
\* about to write 1920 x 480.
C15_Witness ==
  \E r \in Planning :
    /\ r.pc = "modifyBinary"
    /\ r.data = Img(4000, 1000)
    /\ r.result.width = 1920
    /\ r.result.height = 480

\* C16: both sides of a target of calculateDimensions are at least 1.
C16_TargetAtLeastOne ==
  \A c \in PositiveCalls :
    LET dims == calculateDimensions(c[1], c[2], c[3], c[4])
    IN  dims # NoDims => dims.width >= 1 /\ dims.height >= 1

\* C17: resizeImage throws for an image that decodes with a side of 0.
C17_ZeroSizeIsError ==
  \A r \in Planning :
    (r.pc = "resizeImage" /\ (r.data.w = 0 \/ r.data.h = 0))
      => resizeImage(r.data, r.file.name, settings).kind = "error"

\* C18: a target of calculateDimensions is within every limit that is set, and
\* calculateDimensions returns null for it under the same limits.
C18_Idempotent ==
  \A c \in PositiveCalls :
    LET dims == calculateDimensions(c[1], c[2], c[3], c[4])
    IN  dims # NoDims
          => /\ c[3] > 0 => dims.width <= c[3]
             /\ c[4] > 0 => dims.height <= c[4]
             /\ calculateDimensions(dims.width, dims.height, c[3], c[4]) = NoDims

\* C18: the screenshot was written back at 1920 x 1080, released, and a second
\* run has read it under the same limits: it gets null.
C18_Witness ==
  \E r \in Planning :
    /\ r.pc = "resizeImage"
    /\ r.data = Img(1920, 1080)
    /\ settings.maxWidth = 1920
    /\ settings.maxHeight = 1080
    /\ resizeImage(r.data, r.file.name, settings).kind = "null"

\* File names with every extension the plugin takes for an image.
EngineNames ==
  {<<Stem, Dot>> \o e : e \in IMAGE_EXTENSIONS \cup {<<"P", "N", "G">>, <<"J", "P", "G">>}}

\* out, the outcome of resizeImage for a file called name under settings s,
\* names the new extension and passes the quality as the claim has it.
OutcomeAsStated(out, name, s) ==
  /\ out.newExtension =
       IF ToLowerCase(SplitPop(name)) = <<"p", "n", "g">> /\ s.convertToJpeg
       THEN <<"j", "p", "g">> ELSE <<>>
  /\ out.quality =
       IF out.outputMime = "image/png" THEN Undefined ELSE <<s.jpegQuality, 100>>
  /\ out.outputMime = "image/png"
       <=> (ToLowerCase(SplitPop(name)) = <<"p", "n", "g">> /\ ~s.convertToJpeg)

\* C19: an outcome of resizeImage names the extension jpg exactly when the
\* file's lowercased extension is png and convertToJpeg is on, and no extension
\* otherwise; the encoder gets jpegQuality / 100 for every output type but PNG
\* and no quality for PNG.  This holds of the outcome a run holds and of the
\* outcome for the same image under every image file name.
C19_OutputExtension ==
  /\ \A r \in Planning :
       r.pc \in {"modifyBinary", "renameFile"}
         => r.result.kind = "result" /\ OutcomeAsStated(r.result, r.file.name, settings)
  /\ \A r \in Planning : \A name \in EngineNames :
       LET out == resizeImage(r.data, name, settings)
       IN  out.kind = "result" => OutcomeAsStated(out, name, settings)

\* C19: a run holds the outcome for a png file with convertToJpeg on: the new
\* extension is jpg and the quality 85 / 100 goes to the encoder.
C19_Witness ==
  \E r \in Planning :
    /\ r.pc = "renameFile"
    /\ settings.convertToJpeg
    /\ r.file.name = PngPath
    /\ r.result.newExtension = Jpg
    /\ r.result.quality = <<DefaultJpegQuality, 100>>

\* The processFile runs in flight for path p.
RunsOf(p) == Count(runs, LAMBDA r : r.file.path = p)

\* C20: no path has two processFile runs in flight.
C20_OneRunPerPath == \A p \in Paths : RunsOf(p) <= 1

\* The calls that leave a write in this step: runs and batches that were
\* awaiting modifyBinary, as <<path, target of the rename or <<>>, kind>>.
Writers ==
  {<<r.file.path,
     IF r.result.newExtension = <<>> THEN <<>>
     ELSE ProcessNewPath(r.file, r.result.newExtension), "run">> :
       r \in {x \in BagToSet(runs (-) runs') : x.pc = "modifyBinary"}}
  \cup
  {<<BatchFile(b).path,
     IF b.result.newExtension = <<>> THEN <<>>
     ELSE BatchNewPath(BatchFile(b), b.result.newExtension), "batch">> :
       b \in {x \in BagToSet(batches (-) batches') : x.pc = "modifyBinary"}}

\* The calls that leave a rename in this step, as <<path, target>>.
Renamers ==
  {<<r.file.path, ProcessNewPath(r.file, r.result.newExtension)>> :
     r \in {x \in BagToSet(runs (-) runs') : x.pc = "renameFile"}}
  \cup
  {<<BatchFile(b).path, BatchNewPath(BatchFile(b), b.result.newExtension)>> :
     b \in {x \in BagToSet(batches (-) batches') : x.pc = "renameFile"}}

\* A call went on to renameFile in this step.
RenameIssued ==
  \/ \E r \in BagToSet(runs' (-) runs) : r.pc = "renameFile"
  \/ \E b \in BagToSet(batches' (-) batches) : b.pc = "renameFile"

C23_PasteReleased == Quiescent => \A p \in Paths : "paste" \notin markKind[p]

====
